---- MODULE Spec2Model ----
(***************************************************************************)
(* A model of src/game.py: the Flow Free rule engine (GameInstance).       *)
(*                                                                         *)
(* A tile is the record [is_dot, color, next]; the board is a function     *)
(* from positions <<x, y>> to tiles.  A _Tile reference (the `next`        *)
(* attribute) is modelled by the position of the tile it refers to, which  *)
(* is faithful because after __init__ every position holds one tile object *)
(* for the whole life of the game.  Python's None is None (for a colour)   *)
(* and NoTile (for a tile reference).                                      *)
(***************************************************************************)
EXTENDS Integers, Sequences, FiniteSets, TLC

VARIABLES dimension, dots, board, op, res

vars == <<dimension, dots, board, op, res>>

None == "None"

NoTile == <<>>

\* Dot(x, y, color)
Dot(x, y, color) == [x |-> x, y |-> y, color |-> color]

\* _Tile(is_dot=..., color=...): next starts as None
Tile(is_dot, color) == [is_dot |-> is_dot, color |-> color, next |-> NoTile]

Coords(dim) == 0 .. (dim - 1)

Positions(dim) == Coords(dim) \X Coords(dim)

Abs(i) == IF i < 0 THEN -i ELSE i

\* Python list indexing: an index in -len..-1 counts from the end, an index
\* outside -len..len-1 raises IndexError.
Indexable(dim, i) == -dim <= i /\ i < dim

Index(dim, i) == IF i < 0 THEN i + dim ELSE i

TileAt(dim, pos) == <<Index(dim, pos[1]), Index(dim, pos[2])>>

(***************************************************************************)
(* GameInstance.valid_dots: counts the dots of each colour and reduces     *)
(* "count == 2" over the counts with `and`.  reduce() has no initial value *)
(* so an empty dot list raises TypeError.                                  *)
(***************************************************************************)
dot_dict(ds) ==
  [c \in {ds[i].color : i \in DOMAIN ds} |->
      Cardinality({i \in DOMAIN ds : ds[i].color = c})]

\* valid_dots with "count <= 2" for "count == 2"
valid_dots_at_most_two(ds) ==
  IF ds = <<>> THEN "TypeError"
  ELSE IF \A c \in DOMAIN dot_dict(ds) : dot_dict(ds)[c] <= 2 THEN "True"
  ELSE "False"

valid_dots(ds) ==
  IF ds = <<>> THEN "TypeError"
  ELSE IF \A c \in DOMAIN dot_dict(ds) : dot_dict(ds)[c] = 2 THEN "True"
  ELSE "False"

(***************************************************************************)
(* GameInstance.__init__: the empty board, then one dot tile per dot in    *)
(* list order (ValueError on a tile that already holds a dot), then        *)
(* valid_dots.  The result is [err, board]; board is only meaningful when  *)
(* err = "ok" (a raising constructor yields no object).                    *)
(***************************************************************************)
EmptyBoard(dim) == [p \in Positions(dim) |-> Tile(FALSE, None)]

RECURSIVE PlaceDots(_, _, _, _)
PlaceDots(dim, ds, i, b) ==
  IF i > Len(ds) THEN [err |-> "ok", board |-> b]
  ELSE IF ~(Indexable(dim, ds[i].x) /\ Indexable(dim, ds[i].y))
    THEN [err |-> "IndexError", board |-> b]
  ELSE LET p == TileAt(dim, <<ds[i].x, ds[i].y>>) IN
    IF b[p].is_dot THEN [err |-> "OneDotPerTile", board |-> b]
    ELSE PlaceDots(dim, ds, i + 1, [b EXCEPT ![p] = Tile(TRUE, ds[i].color)])

init(dim, ds) ==
  LET placed == PlaceDots(dim, ds, 1, EmptyBoard(dim)) IN
    IF placed.err # "ok" THEN placed
    ELSE IF valid_dots(ds) = "TypeError" THEN [err |-> "TypeError", board |-> placed.board]
    ELSE IF valid_dots(ds) = "False" THEN [err |-> "InvalidGameBoard", board |-> placed.board]
    ELSE placed

(***************************************************************************)
(* _Tile.line_end: follows next while it is set.  The walk does not end on *)
(* a cycle of next links; a walk still going after as many steps as there  *)
(* are tiles is on a cycle, which is reported as NoTile.                   *)
(***************************************************************************)
RECURSIVE line_end_walk(_, _, _)
line_end_walk(b, curr, steps) ==
  IF b[curr].next = NoTile THEN curr
  ELSE IF steps >= Cardinality(DOMAIN b) THEN NoTile
  ELSE line_end_walk(b, b[curr].next, steps + 1)

line_end(b, tile) == line_end_walk(b, tile, 0)

(***************************************************************************)
(* GameInstance.remove_line(origin)                                        *)
(***************************************************************************)
\* the loop of remove_line without the test for a dot
RECURSIVE remove_loop_through_dots(_, _)
remove_loop_through_dots(b, current_tile) ==
  IF current_tile # NoTile /\ b[current_tile].color # None
    THEN remove_loop_through_dots([b EXCEPT ![current_tile].color = None,
                                            ![current_tile].next = NoTile],
                                  b[current_tile].next)
    ELSE b

\* the loop of remove_line clearing one tile and stopping
remove_loop_one_tile(b, current_tile) ==
  IF current_tile # NoTile /\ b[current_tile].color # None /\ ~b[current_tile].is_dot
    THEN [b EXCEPT ![current_tile].color = None, ![current_tile].next = NoTile]
    ELSE b

RECURSIVE remove_loop(_, _)
remove_loop(b, current_tile) ==
  IF current_tile # NoTile /\ b[current_tile].color # None /\ ~b[current_tile].is_dot
    THEN remove_loop([b EXCEPT ![current_tile].color = None,
                               ![current_tile].next = NoTile],
                     b[current_tile].next)
    ELSE b

\* remove_line taking one tile off the end of the line instead of clearing
\* the line from origin on
remove_line_pops_end(dim, b, origin) ==
  IF origin = NoTile THEN [err |-> "TypeError", board |-> b]
  ELSE IF ~(Indexable(dim, origin[1]) /\ Indexable(dim, origin[2]))
    THEN [err |-> "IndexError", board |-> b]
  ELSE LET end == line_end(b, TileAt(dim, origin)) IN
    IF end = NoTile \/ b[end].is_dot \/ b[end].color = None
      THEN [err |-> "ok", board |-> b]
      ELSE [err |-> "ok",
            board |-> [p \in DOMAIN b |->
                         IF p = end THEN [b[p] EXCEPT !.color = None]
                         ELSE IF b[p].next = end THEN [b[p] EXCEPT !.next = NoTile]
                         ELSE b[p]]]

\* remove_line stepping past the origin whether or not it is a dot
remove_line_skips_origin(dim, b, origin) ==
  IF origin = NoTile THEN [err |-> "TypeError", board |-> b]
  ELSE IF ~(Indexable(dim, origin[1]) /\ Indexable(dim, origin[2]))
    THEN [err |-> "IndexError", board |-> b]
  ELSE LET current_tile == TileAt(dim, origin) IN
    [err |-> "ok",
     board |-> remove_loop([b EXCEPT ![current_tile].next = NoTile],
                           b[current_tile].next)]

remove_line(dim, b, origin) ==
  IF origin = NoTile THEN [err |-> "TypeError", board |-> b]
  ELSE IF ~(Indexable(dim, origin[1]) /\ Indexable(dim, origin[2]))
    THEN [err |-> "IndexError", board |-> b]
  ELSE LET current_tile == TileAt(dim, origin) IN
    IF b[current_tile].is_dot
      THEN [err |-> "ok",
            board |-> remove_loop([b EXCEPT ![current_tile].next = NoTile],
                                  b[current_tile].next)]
      ELSE [err |-> "ok", board |-> remove_loop(b, current_tile)]

(***************************************************************************)
(* GameInstance._previous(coord): the first in-bounds neighbour, in the    *)
(* order left-x, right-x, lower-y, upper-y, whose next is the tile at      *)
(* coord; None when there is none.                                         *)
(***************************************************************************)
candidates(coord) ==
  << <<coord[1] - 1, coord[2]>>, <<coord[1] + 1, coord[2]>>,
     <<coord[1], coord[2] - 1>>, <<coord[1], coord[2] + 1>> >>

previous_hits(dim, b, coord) ==
  {i \in 1..4 : /\ candidates(coord)[i] \in Positions(dim)
                /\ b[candidates(coord)[i]].next = coord}

_previous(dim, b, coord) ==
  IF previous_hits(dim, b, coord) = {} THEN NoTile
  ELSE candidates(coord)[CHOOSE i \in previous_hits(dim, b, coord) :
                            \A j \in previous_hits(dim, b, coord) : i <= j]

(***************************************************************************)
(* GameInstance.color_tile(previous, current).  The result is [err, board] *)
(* where board is the board the call leaves behind (Python mutates in      *)
(* place, so a call that raises after a mutation leaves the mutation).     *)
(* The error kinds are named after the raise statements:                   *)
(*   IndexError      - line 109 (or the list indexing of lines 104-105)    *)
(*   CannotDrawOnDot - line 113      NotEndOfLine  - line 116              *)
(*   NotPartOfLine   - line 119      NotAdjacent   - line 122              *)
(*   SameDot         - line 137                                            *)
(*   AttributeError  - line 131, other_dot is None                         *)
(*   TypeError       - line 141, _previous returned None                   *)
(***************************************************************************)
InBounds(dim, previous, current) ==
  \A d \in {previous[1], previous[2], current[1], current[2]} : 0 <= d /\ d < dim

\* color_tile_checks without the end-of-line check of lines 115-116
color_tile_checks_no_end(dim, b, previous, current) ==
  IF ~InBounds(dim, previous, current) THEN "IndexError"
  ELSE IF b[current].is_dot /\ b[previous].color # b[current].color THEN "CannotDrawOnDot"
  ELSE IF b[previous].color = None THEN "NotPartOfLine"
  ELSE IF Abs(current[1] - previous[1]) + Abs(current[2] - previous[2]) # 1 THEN "NotAdjacent"
  ELSE "ok"

\* color_tile_checks with the adjacency check moved up, before the dot check
color_tile_checks_adjacent_first(dim, b, previous, current) ==
  IF ~InBounds(dim, previous, current) THEN "IndexError"
  ELSE IF Abs(current[1] - previous[1]) + Abs(current[2] - previous[2]) # 1 THEN "NotAdjacent"
  ELSE IF b[current].is_dot /\ b[previous].color # b[current].color THEN "CannotDrawOnDot"
  ELSE IF b[previous].next # NoTile THEN "NotEndOfLine"
  ELSE IF b[previous].color = None THEN "NotPartOfLine"
  ELSE "ok"

\* lines 107-122: the checks made before anything is changed, in code order
color_tile_checks(dim, b, previous, current) ==
  IF ~InBounds(dim, previous, current) THEN "IndexError"
  ELSE IF b[current].is_dot /\ b[previous].color # b[current].color THEN "CannotDrawOnDot"
  ELSE IF b[previous].next # NoTile THEN "NotEndOfLine"
  ELSE IF b[previous].color = None THEN "NotPartOfLine"
  ELSE IF Abs(current[1] - previous[1]) + Abs(current[2] - previous[2]) # 1 THEN "NotAdjacent"
  ELSE "ok"

\* lines 126-130: the last dot of the list that is elsewhere and has the colour
other_dots(ds, b, previous) ==
  {i \in DOMAIN ds : /\ (ds[i].x # previous[1] \/ ds[i].y # previous[2])
                     /\ ds[i].color = b[previous].color}

other_dot(ds, b, previous) ==
  IF other_dots(ds, b, previous) = {} THEN NoTile
  ELSE LET i == CHOOSE k \in other_dots(ds, b, previous) :
                   \A j \in other_dots(ds, b, previous) : j <= k
       IN <<ds[i].x, ds[i].y>>

\* lines 124-131
color_tile_new_line(dim, ds, b, previous) ==
  IF ~b[previous].is_dot THEN [err |-> "ok", board |-> b]
  ELSE IF other_dot(ds, b, previous) = NoTile THEN [err |-> "AttributeError", board |-> b]
  ELSE remove_line(dim, b, other_dot(ds, b, previous))

\* lines 139-141
color_tile_overwrite(dim, b, current) ==
  IF b[current].color # None /\ ~b[current].is_dot
    THEN remove_line(dim, b, _previous(dim, b, current))
    ELSE [err |-> "ok", board |-> b]

\* lines 144-145
color_tile_link(b, previous, current) ==
  [b EXCEPT ![previous].next = current, ![current].color = b[previous].color]

\* color_tile with the other dot's line removed before the checks are made
color_tile_removes_first(dim, ds, b, previous, current) ==
  IF ~InBounds(dim, previous, current) THEN [err |-> "IndexError", board |-> b]
  ELSE LET r1 == IF b[previous].color # None
                   THEN color_tile_new_line(dim, ds, b, previous)
                   ELSE [err |-> "ok", board |-> b] IN
    IF r1.err # "ok" THEN r1
    ELSE IF color_tile_checks(dim, b, previous, current) # "ok"
      THEN [err |-> color_tile_checks(dim, b, previous, current), board |-> r1.board]
    ELSE IF r1.board[current].is_dot /\ r1.board[current].next # NoTile
      THEN [err |-> "SameDot", board |-> r1.board]
    ELSE LET r2 == color_tile_overwrite(dim, r1.board, current) IN
      IF r2.err # "ok" THEN r2
      ELSE [err |-> "ok", board |-> color_tile_link(r2.board, previous, current)]

color_tile(dim, ds, b, previous, current) ==
  IF color_tile_checks(dim, b, previous, current) # "ok"
    THEN [err |-> color_tile_checks(dim, b, previous, current), board |-> b]
  ELSE LET r1 == color_tile_new_line(dim, ds, b, previous) IN
    IF r1.err # "ok" THEN r1
    ELSE IF r1.board[current].is_dot /\ r1.board[current].next # NoTile
      THEN [err |-> "SameDot", board |-> r1.board]
    ELSE LET r2 == color_tile_overwrite(dim, r1.board, current) IN
      IF r2.err # "ok" THEN r2
      ELSE [err |-> "ok", board |-> color_tile_link(r2.board, previous, current)]

(***************************************************************************)
(* GameInstance.game_won: "True", "False", or "Diverges" when line_end     *)
(* does not return.                                                        *)
(***************************************************************************)
all_colored(b) == \A p \in DOMAIN b : b[p].color # None

\* game_won's loop answering False at a dot that starts no line
RECURSIVE game_won_loop_every_dot(_, _, _, _)
game_won_loop_every_dot(ds, b, i, colors) ==
  IF i > Len(ds) THEN (IF colors = {} THEN "True" ELSE "False")
  ELSE LET dot_tile == <<ds[i].x, ds[i].y>> IN
    IF ds[i].color \notin colors THEN game_won_loop_every_dot(ds, b, i + 1, colors)
    ELSE IF b[dot_tile].next # NoTile
      THEN (IF line_end(b, dot_tile) = NoTile THEN "Diverges"
            ELSE IF ~b[line_end(b, dot_tile)].is_dot THEN "False"
            ELSE game_won_loop_every_dot(ds, b, i + 1, colors \ {ds[i].color}))
    ELSE "False"

RECURSIVE game_won_loop(_, _, _, _)
game_won_loop(ds, b, i, colors) ==
  IF i > Len(ds) THEN (IF colors = {} THEN "True" ELSE "False")
  ELSE LET dot_tile == <<ds[i].x, ds[i].y>> IN
    IF ds[i].color \notin colors THEN game_won_loop(ds, b, i + 1, colors)
    ELSE IF b[dot_tile].next # NoTile
      THEN (IF line_end(b, dot_tile) = NoTile THEN "Diverges"
            ELSE IF ~b[line_end(b, dot_tile)].is_dot THEN "False"
            ELSE game_won_loop(ds, b, i + 1, colors \ {ds[i].color}))
    ELSE game_won_loop(ds, b, i + 1, colors)

game_won(ds, b) ==
  IF ~all_colored(b) THEN "False"
  ELSE game_won_loop(ds, b, 1, {ds[i].color : i \in DOMAIN ds})

(***************************************************************************)
(* The game as a state machine.  dimension, dots and board are the         *)
(* attributes of GameInstance; op names the last method called and res how *)
(* it returned: "ok", the kind of the exception raised, or the value of    *)
(* game_won.  A game_won call that never returns leaves res = "Diverges",  *)
(* and nothing is called after it.                                         *)
(***************************************************************************)

\* The boards played.  Two 2x2 boards whose dots touch, listed in both
\* orders; a 3x3 board of three colours whose dots face each other across a
\* free column, the colours interleaved in the list; a 3x3 board of three
\* colours with the two red dots and the two green dots touching and the
\* free tiles around a corner.
Layouts ==
  { [dimension |-> 2, dots |-> << Dot(0, 0, "red"), Dot(0, 1, "red") >>],
    [dimension |-> 2, dots |-> << Dot(0, 1, "red"), Dot(0, 0, "red") >>],
    [dimension |-> 3,
     dots |-> << Dot(0, 0, "red"), Dot(1, 2, "blue"), Dot(2, 0, "green"),
                 Dot(1, 0, "blue"), Dot(0, 2, "red"), Dot(2, 2, "green") >>],
    [dimension |-> 3,
     dots |-> << Dot(0, 0, "red"), Dot(2, 2, "blue"), Dot(1, 0, "green"),
                 Dot(0, 1, "red"), Dot(2, 0, "blue"), Dot(1, 1, "green") >>] }

\* positions handed to the methods: every tile of the board, and positions
\* off it: a negative index (which Python counts from the end of the list),
\* an index past the end, and both
OffBoard == {<<-1, 0>>, <<0, dimension>>, <<dimension, -1>>}

ArgPositions == Positions(dimension) \cup OffBoard

Init ==
  /\ \E l \in Layouts : /\ dimension = l.dimension
                        /\ dots = l.dots
                        /\ board = init(l.dimension, l.dots).board
                        /\ res = init(l.dimension, l.dots).err
  /\ op = "__init__"

ColorTile(previous, current) ==
  /\ res # "Diverges"
  /\ op' = "color_tile"
  /\ LET r == color_tile(dimension, dots, board, previous, current) IN
       board' = r.board /\ res' = r.err
  /\ UNCHANGED <<dimension, dots>>

RemoveLine(origin) ==
  /\ res # "Diverges"
  /\ op' = "remove_line"
  /\ LET r == remove_line(dimension, board, origin) IN
       board' = r.board /\ res' = r.err
  /\ UNCHANGED <<dimension, dots>>

GameWon ==
  /\ res # "Diverges"
  /\ op' = "game_won"
  /\ res' = game_won(dots, board)
  /\ UNCHANGED <<dimension, dots, board>>

Next ==
  \/ \E previous \in ArgPositions, current \in ArgPositions : ColorTile(previous, current)
  \/ \E origin \in ArgPositions : RemoveLine(origin)
  \/ GameWon

Spec == Init /\ [][Next]_vars

(***************************************************************************)
(* Vocabulary of the claims.                                               *)
(***************************************************************************)
Pos == Positions(dimension)

DotPositions == {<<dots[i].x, dots[i].y>> : i \in DOMAIN dots}

DotColors == {dots[i].color : i \in DOMAIN dots}

\* the step just taken is a color_tile call that returned normally
Extended == op' = "color_tile" /\ res' = "ok"

\* the step just taken is a color_tile call that raised
Rejected == op' = "color_tile" /\ res' # "ok"

\* C1: after every successful color_tile(previous, current) the tile at
\* previous has the tile at current as its next, and the tile at current has
\* the colour the tile at previous had when the call was made; it is coloured.
C1_ExtendLinksAndColours ==
  [][Extended =>
       \A previous \in Pos, current \in Pos :
          ColorTile(previous, current) =>
             /\ board'[previous].next = current
             /\ board'[current].color = board[previous].color
             /\ board'[current].color # None]_vars

\* C4: a color_tile call that raises leaves every tile's colour and next as
\* they were before the call.
C4_RejectedLeavesBoard == [][Rejected => board' = board]_vars

\* a rejected call has acted on a board with a line drawn: the move back onto
\* the dot the line starts from
C4_Witness ==
  /\ op = "color_tile" /\ res = "SameDot"
  /\ \E d \in DotPositions : board[d].next # NoTile

\* the tiles met following next from tile t, t included
RECURSIVE LineTiles(_, _, _)
LineTiles(b, t, seen) ==
  IF t = NoTile \/ t \in seen THEN seen ELSE LineTiles(b, b[t].next, seen \cup {t})

\* the dot f is the other dot of dot e's colour
PairedDots(b, e, f) == e # f /\ b[e].is_dot /\ b[f].is_dot /\ b[e].color = b[f].color

\* following next from dot e passes only through tiles of e's colour and
\* ends at the other dot of that colour
Joined(b, e) ==
  /\ line_end(b, e) # NoTile
  /\ PairedDots(b, e, line_end(b, e))
  /\ \A t \in LineTiles(b, e, {}) : b[t].color = b[e].color

\* following next from dot e leads to the other dot of its colour
LeadsToPair(b, e) == \E f \in LineTiles(b, e, {}) : PairedDots(b, e, f)

\* C2: whenever game_won returns True, every tile is coloured and every
\* colour has a dot from which the next links pass only through tiles of that
\* colour and end at the other dot of the colour.
C2_WonMeansJoined ==
  (op = "game_won" /\ res = "True") =>
     /\ all_colored(board)
     /\ \A c \in DotColors : \E e \in DotPositions : board[e].color = c /\ Joined(board, e)

\* C3: game_won returns True on every board where all tiles are coloured and
\* every colour has a line leading from one of its dots to the other,
\* whichever dot the line starts from and whatever the order of the dot list;
\* and it returns False on every board with an uncoloured tile.
C3_JoinedMeansWon ==
  op = "game_won" =>
     /\ (/\ all_colored(board)
         /\ \A c \in DotColors :
              \E e \in DotPositions : board[e].color = c /\ LeadsToPair(board, e))
        => res = "True"
     /\ ~all_colored(board) => res = "False"

\* game_won has returned True on a solved board on which some line starts
\* from the dot listed second for its colour
C3_Witness ==
  /\ op = "game_won" /\ res = "True"
  /\ \A c \in DotColors : \E e \in DotPositions : board[e].color = c /\ Joined(board, e)
  /\ \E i \in DOMAIN dots, j \in DOMAIN dots :
       /\ i < j /\ dots[i].color = dots[j].color
       /\ board[<<dots[j].x, dots[j].y>>].next # NoTile

Adjacent(previous, current) ==
  Abs(current[1] - previous[1]) + Abs(current[2] - previous[2]) = 1

\* C5: color_tile(previous, current) never succeeds when a coordinate is off
\* the board, the positions are not at distance 1, the previous tile is
\* uncoloured or has a next, the current tile is a dot of another colour, or
\* the current tile is a dot of the same colour that has a next.
C5_NeverSucceeds ==
  [][Extended =>
       \A previous \in ArgPositions, current \in ArgPositions :
          ColorTile(previous, current) =>
             /\ InBounds(dimension, previous, current)
             /\ Adjacent(previous, current)
             /\ board[previous].color # None
             /\ board[previous].next = NoTile
             /\ ~(board[current].is_dot /\ board[current].color # board[previous].color)
             /\ ~(board[current].is_dot /\ board[current].next # NoTile)]_vars

\* C5 as amended: the last case only when the previous tile is not a dot.  A
\* call from a dot removes the other dot's line first, and then succeeds.
C5_NeverSucceedsAmended ==
  [][Extended =>
       \A previous \in ArgPositions, current \in ArgPositions :
          ColorTile(previous, current) =>
             /\ InBounds(dimension, previous, current)
             /\ Adjacent(previous, current)
             /\ board[previous].color # None
             /\ board[previous].next = NoTile
             /\ ~(board[current].is_dot /\ board[current].color # board[previous].color)
             /\ ~(/\ ~board[previous].is_dot
                  /\ board[current].is_dot /\ board[current].next # NoTile)]_vars

\* a call from a tile that is not the end of its line has been rejected
C5_Witness ==
  /\ op = "color_tile" /\ res = "NotEndOfLine"
  /\ \E p \in Pos : board[p].color # None /\ board[p].next # NoTile

\* C6: whenever both positions are on the board and not adjacent, color_tile
\* fails with the not-adjacent kind, whatever the two tiles hold.
C6_NotAdjacentReported ==
  \A previous \in Pos, current \in Pos :
     ~Adjacent(previous, current) =>
        color_tile(dimension, dots, board, previous, current).err = "NotAdjacent"

\* C6 as amended: the checks come in the order bounds, dot of another colour,
\* previous has a next, previous uncoloured, adjacency, and the first one
\* violated is reported; a call with both positions on the board and not
\* adjacent fails with the not-adjacent kind only when none of the three
\* checks before it fails.
C6_ChecksInCodeOrder ==
  \A previous \in ArgPositions, current \in ArgPositions :
     LET kind == color_tile(dimension, dots, board, previous, current).err
         mismatch == board[current].is_dot /\ board[previous].color # board[current].color
         has_next == board[previous].next # NoTile
         uncoloured == board[previous].color = None
     IN IF ~InBounds(dimension, previous, current) THEN kind = "IndexError"
        ELSE /\ mismatch => kind = "CannotDrawOnDot"
             /\ (~mismatch /\ has_next) => kind = "NotEndOfLine"
             /\ (~mismatch /\ ~has_next /\ uncoloured) => kind = "NotPartOfLine"
             /\ (~mismatch /\ ~has_next /\ ~uncoloured /\ ~Adjacent(previous, current))
                  => kind = "NotAdjacent"
             /\ (~Adjacent(previous, current)) =>
                  kind \in {"CannotDrawOnDot", "NotEndOfLine", "NotPartOfLine", "NotAdjacent"}

\* a call between tiles that are not adjacent has been rejected as such, on a
\* board with a line drawn
C6_Witness ==
  /\ op = "color_tile" /\ res = "NotAdjacent"
  /\ \E p \in Pos : board[p].next # NoTile

\* C9: if color_tile(q, p) succeeds and remove_line(p) is called next, the
\* board is the board before the color_tile call, the next of q included.
C9_ExtendTruncateRestores ==
  [][Extended =>
       \A q \in Pos, p \in Pos :
          ColorTile(q, p) => remove_line(dimension, board', p).board = board]_vars

\* the other dot of q's colour starts a line
PairHasLine(b, q) == \E f \in DOMAIN b : PairedDots(b, q, f) /\ b[f].next # NoTile

\* C9 as amended: if color_tile(q, p) succeeds where p had no next and was
\* not a coloured tile of a line, and q is not a dot whose paired dot starts a
\* line, then after remove_line(p) every tile is as before the color_tile
\* call, except that the next of q is p.
C9_ExtendTruncateKeepsLink ==
  [][Extended =>
       \A q \in Pos, p \in Pos :
          (/\ ColorTile(q, p)
           /\ board[p].next = NoTile
           /\ (board[p].color = None \/ board[p].is_dot)
           /\ ~PairHasLine(board, q))
          => remove_line(dimension, board', p).board = [board EXCEPT ![q].next = p]]_vars

\* remove_line has left a coloured tile whose next is an uncoloured tile
\* with no next: a line extended by one tile and cut at that tile
C9_Witness ==
  /\ op = "remove_line" /\ res = "ok"
  /\ \E q \in Pos : /\ board[q].color # None /\ board[q].next # NoTile
                    /\ board[board[q].next].color = None
                    /\ board[board[q].next].next = NoTile

\* C10: calling remove_line twice in a row on the same origin leaves the
\* board the first call left.
C10_TruncateIdempotent ==
  [][op' = "remove_line" =>
       \A origin \in ArgPositions :
          RemoveLine(origin) =>
             remove_line(dimension, board', origin) = [err |-> res', board |-> board']]_vars

\* remove_line has returned after clearing the rest of a line from the middle:
\* the tile before the origin still points at a tile that is now uncoloured
C10_Witness ==
  /\ op = "remove_line" /\ res = "ok"
  /\ \E p \in Pos : board[p].color = None /\ ~board[p].is_dot
  /\ \E q \in Pos : board[q].next # NoTile /\ board[board[q].next].color = None

\* following next from tile t for as many steps as there are tiles reaches a
\* tile with no next
RECURSIVE EndsWithin(_, _, _)
EndsWithin(b, t, steps) ==
  IF b[t].next = NoTile THEN TRUE
  ELSE IF steps = 0 THEN FALSE
  ELSE EndsWithin(b, b[t].next, steps - 1)

\* C11: on every board reached by color_tile and remove_line calls the next
\* links have no cycle: from every tile, following next reaches a tile with no
\* next within dimension * dimension steps.
C11_NoCycle ==
  \A t \in Pos : EndsWithin(board, t, dimension * dimension)

\* the tiles whose next is tile t
Predecessors(b, t) == {p \in DOMAIN b : b[p].next = t}

\* C12: on every board reached by color_tile and remove_line calls each tile
\* is the next of at most one tile.
C12_OnePredecessor ==
  \A t \in Pos : Cardinality(Predecessors(board, t)) <= 1

\* C13: on every board reached by color_tile and remove_line calls a tile
\* with no colour has no next.
C13_UncolouredHasNoNext ==
  \A t \in Pos : board[t].color = None => board[t].next = NoTile

\* the tiles strictly upstream of tile t: t is met following next from them,
\* and they are not met following next from t
Upstream(b, t) ==
  {u \in DOMAIN b : u # t /\ t \in LineTiles(b, u, {}) /\ u \notin LineTiles(b, t, {})}

\* C14: when color_tile moves onto a coloured tile that is not a dot, and no
\* line of the paired dot is removed by the call, every tile strictly upstream
\* of the current tile keeps its colour, the tile before it included.
C14_OverwriteKeepsUpstream ==
  [][Extended =>
       \A previous \in Pos, current \in Pos :
          (/\ ColorTile(previous, current)
           /\ board[current].color # None /\ ~board[current].is_dot
           /\ ~PairHasLine(board, previous))
          => \A u \in Upstream(board, current) : board'[u].color = board[u].color]_vars

\* the tiles met following next from dot e, up to the first dot or the end:
\* the line drawn from e
RECURSIVE LineFrom(_, _, _)
LineFrom(b, t, seen) ==
  IF t = NoTile \/ t \in seen \/ b[t].is_dot THEN seen
  ELSE LineFrom(b, b[t].next, seen \cup {t})

\* at most one of the two dots of each colour has a next
OneLinePerColour(b) ==
  \A e \in DotPositions, f \in DotPositions :
     PairedDots(b, e, f) => (b[e].next = NoTile \/ b[f].next = NoTile)

\* C15: at most one of the two dots of each colour has a next; and after a
\* color_tile call from a dot that returned normally, the paired dot has no
\* next and every tile that was on the paired dot's line is uncoloured (the
\* tile moved onto aside, which the call itself colours last).
C15_OneLinePerColour ==
  [][/\ board' # board => OneLinePerColour(board')
     /\ Extended =>
          \A previous \in DotPositions, f \in DotPositions, current \in Pos :
             (/\ PairedDots(board, previous, f)
              /\ board'[previous].next = current
              /\ ColorTile(previous, current))
             => /\ board'[f].next = NoTile
                /\ \A t \in LineFrom(board, board[f].next, {}) \ {current} :
                      board'[t].color = None]_vars

\* the dots of tile t's colour from which following next meets t
Origins(b, t) ==
  {e \in DOMAIN b : b[e].is_dot /\ b[e].color = b[t].color /\ t \in LineTiles(b, e, {})}

\* C16: on every board reached by color_tile and remove_line calls, every
\* coloured tile that is not a dot is met following next from exactly one dot
\* of its colour.
C16_OneOriginPerTile ==
  \A t \in Pos :
     (board[t].color # None /\ ~board[t].is_dot) => Cardinality(Origins(board, t)) = 1

\* a line of two tiles or more runs from a dot, on a board where some
\* coloured tile has kept a next to a tile that was cleared
C16_Witness ==
  /\ \E e \in DotPositions :
       /\ board[e].next # NoTile /\ ~board[board[e].next].is_dot
       /\ board[board[e].next].color = board[e].color
       /\ board[board[e].next].next # NoTile
       /\ ~board[board[board[e].next].next].is_dot
       /\ board[board[board[e].next].next].color = board[e].color
  /\ \E p \in Pos : /\ board[p].color # None /\ board[p].next # NoTile
                    /\ board[board[p].next].color = None

\* the tiles the walk of remove_line reaches from tile t: the coloured tiles
\* it clears and the tile it stops at
RECURSIVE Reached(_, _, _)
Reached(b, t, seen) ==
  IF t = NoTile \/ t \in seen THEN seen
  ELSE IF b[t].is_dot \/ b[t].color = None THEN seen \cup {t}
  ELSE Reached(b, b[t].next, seen \cup {t})

\* C17: remove_line(origin) changes only tiles met following next from
\* origin: every tile the walk reaches that is not a dot ends uncoloured with
\* no next, a dot origin loses only its next, and every tile off that chain,
\* the tile whose next is origin included, keeps its colour and its next.
C17_TruncateFrame ==
  [][(op' = "remove_line" /\ res' = "ok") =>
       \A origin \in Pos :
          RemoveLine(origin) =>
             /\ \A p \in Pos \ LineTiles(board, origin, {}) : board'[p] = board[p]
             /\ \A p \in Reached(board,
                                 IF board[origin].is_dot THEN board[origin].next ELSE origin,
                                 {}) :
                   ~board[p].is_dot => (board'[p].color = None /\ board'[p].next = NoTile)
             /\ board[origin].is_dot =>
                   board'[origin] = [board[origin] EXCEPT !.next = NoTile]
             /\ \A p \in Pos : board[p].next = origin => board'[p] = board[p]]_vars

\* C18: across color_tile, remove_line and game_won calls the dot tiles are
\* the tiles of the dot list and each keeps the colour the list gives it: no
\* call uncolours or recolours a dot, and no other tile becomes a dot.
C18_DotsFixed ==
  /\ \A p \in Pos : board[p].is_dot <=> p \in DotPositions
  /\ \A i \in DOMAIN dots : board[<<dots[i].x, dots[i].y>>].color = dots[i].color

\* remove_line has cleared the tiles of a line that a dot started, and the
\* dot still points at the first of them
C18_Witness ==
  /\ op = "remove_line" /\ res = "ok"
  /\ \E e \in DotPositions : /\ board[e].next # NoTile
                             /\ ~board[board[e].next].is_dot
                             /\ board[board[e].next].color = None

\* C19: when the two dots A and B of a colour are adjacent and B starts a
\* line, color_tile(A, B) returns normally: B's line is removed first, so the
\* same-dot check does not reject the move, and afterwards the next of A is
\* B, B has no next, and every tile of B's old line is uncoloured.
C19_RedrawOntoAdjacentDot ==
  \A A \in DotPositions, B \in DotPositions :
     (PairedDots(board, A, B) /\ Adjacent(A, B) /\ board[B].next # NoTile) =>
        LET r == color_tile(dimension, dots, board, A, B) IN
          /\ r.err = "ok"
          /\ r.board[A].next = B
          /\ r.board[B].next = NoTile
          /\ \A t \in LineFrom(board, board[B].next, {}) : r.board[t].color = None

\* C20: on every board reached by color_tile and remove_line calls, whether
\* they returned normally or raised, a game_won call returns True or False:
\* the walk of line_end from a dot reaches a tile with no next.
C20_GameWonReturns ==
  game_won(dots, board) \in {"True", "False"}


(***************************************************************************)
(* Construction on its own: before the call there is no game (op = "new",  *)
(* no board); Construct is GameInstance(dimension, dots).  A constructor   *)
(* that raises yields no object, so the board stays absent.                *)
(***************************************************************************)
MaxDim == 2

MaxDots == 4

NoBoard == <<>>

\* the colours of the dots handed to the constructor
Colors == {"red", "blue"}

DotValues(dim) == {Dot(x, y, c) : x \in Coords(dim), y \in Coords(dim), c \in Colors}

InitNew ==
  /\ dimension \in 1..MaxDim
  /\ \E n \in 0..MaxDots : dots \in [1..n -> DotValues(dimension)]
  /\ board = NoBoard
  /\ op = "new"
  /\ res = "none"

Construct ==
  /\ op = "new"
  /\ op' = "__init__"
  /\ LET r == init(dimension, dots) IN
       /\ res' = r.err
       /\ board' = IF r.err = "ok" THEN r.board ELSE NoBoard
  /\ UNCHANGED <<dimension, dots>>

NextNew == Construct

SpecNew == InitNew /\ [][NextNew]_vars

\* two dots of the list on one position
SharePosition(ds) ==
  \E i \in DOMAIN ds, j \in DOMAIN ds : i # j /\ ds[i].x = ds[j].x /\ ds[i].y = ds[j].y

\* some colour of the list with one dot, or with three or more
Unpaired(ds) ==
  \E i \in DOMAIN ds : Cardinality({j \in DOMAIN ds : ds[j].color = ds[i].color}) # 2

\* the board construction is to produce: dot tiles as declared, every other
\* tile uncoloured, no next anywhere
FreshBoard(dim, ds, b) ==
  /\ DOMAIN b = Positions(dim)
  /\ \A i \in DOMAIN ds : /\ b[<<ds[i].x, ds[i].y>>].is_dot
                          /\ b[<<ds[i].x, ds[i].y>>].color = ds[i].color
  /\ \A p \in Positions(dim) :
       /\ b[p].next = NoTile
       /\ (\A i \in DOMAIN ds : <<ds[i].x, ds[i].y>> # p) =>
             (~b[p].is_dot /\ b[p].color = None)

\* C7: for every dimension and every dot list, the empty one included, with no
\* two dots on one position and exactly two dots of each colour, construction
\* succeeds and yields the fresh board.
C7_ValidListsConstruct ==
  (op = "__init__" /\ ~SharePosition(dots) /\ ~Unpaired(dots)) =>
     (res = "ok" /\ FreshBoard(dimension, dots, board))

\* C8: construction fails and returns no board whenever two dots share a
\* position or some colour does not have exactly two dots.
C8_InvalidListsRejected ==
  (op = "__init__" /\ (SharePosition(dots) \/ Unpaired(dots))) =>
     (res # "ok" /\ board = NoBoard)

\* construction has rejected a list with three dots of one colour on
\* different tiles
C8_Witness ==
  /\ op = "__init__" /\ res = "InvalidGameBoard"
  /\ ~SharePosition(dots)
  /\ \E i \in DOMAIN dots : Cardinality({j \in DOMAIN dots : dots[j].color = dots[i].color}) = 3

====
